---- MODULE Spec2Model ----
(***************************************************************************)
(* A model of the GEOS agent (src/src/geos_agent): the tool-calling loop   *)
(* of GeosAgent.run with its conversation, and the workspace file tools.   *)
(*                                                                         *)
(* Modelling conventions                                                   *)
(*  - Python None is the string None below; text values are strings.       *)
(*  - The hosted model is the environment: every reply (content, tool      *)
(*    calls) and every tool outcome is a nondeterministic choice.          *)
(*  - json.loads on a text either returns a value or raises                *)
(*    JSONDecodeError; interpreter resource limits (recursion depth,       *)
(*    memory) are not modelled.                                            *)
(***************************************************************************)
EXTENDS Integers, Sequences, FiniteSets, TLC

VARIABLES
    messages,   \* self.messages: the conversation, shared by every run of the agent
    maxSteps,   \* self.config.max_steps
    pc,         \* per caller thread: where its GeosAgent.run invocation stands
    user,       \* per thread: the user_input argument of its current run
    step,       \* per thread: the loop variable `step`
    msg,        \* per thread: response.choices[0].message of the current step
    tcIdx,      \* per thread: position in `for tc in msg.tool_calls`
    ret,        \* per thread: the value run returned (None before it returns)
    request,    \* per thread: the conversation sent with its most recent model call
    replies,    \* per thread: the model replies received in the current run, in order
    modelCalls, \* per thread: the number of model calls issued in the current run
    toolLog,    \* per thread: the _run_tool_call invocations of the current run, in order
    runs,       \* number of runs started on this agent instance
    lastEnd,    \* how the previous run on this instance ended
    logMode,    \* self.log_path: absent, a file that takes writes, one that refuses them
    log,        \* per thread: the records its current run appended to the log file
    logFailed,  \* per thread: a log write of its current run failed
    overlap,    \* a run was entered while another was in flight, and the agent has
                \* not been without a run in flight since
    fs,         \* the file system: what every path holds
    lastOp,     \* the most recent call of a file tool, with its result
    lastShell,  \* the most recent call of run_shell, with its result
    toolList,   \* self.tools: the names of the tools given to the agent, in list order
    toolMap,    \* self.tool_map: for a name the position of the tool it is mapped to
    dispatch,   \* the most recent lookup of a tool by name: the name and the tool found
    doc,        \* the lines of the document given to parse_example_rst
    example     \* the record parse_example_rst made of it, its two command lists

agentVars == <<messages, maxSteps, pc, user, step, msg, tcIdx, ret, request,
               replies, modelCalls, toolLog, runs, lastEnd, logMode, log, logFailed,
               overlap>>

----------------------------------------------------------------------------
(* Bounds of the model *)

\* config.max_steps ranges over 0..MaxStepsBound
MaxStepsBound == 2
\* at most this many tool calls are requested by the model within one run
MaxToolCalls == 2
\* at most this many runs are started on the agent instance
MaxRuns == 2
\* a file holds at most this many characters
MaxFileLen == 2
\* at most this many tools are given to an agent
MaxTools == 3
\* config.max_steps of an agent whose runs overlap is at most this
ConcMaxSteps == 1

----------------------------------------------------------------------------
(* Values *)

None == "<None>"

Threads == {1, 2}

UserInputs == {"u1", "u2"}

\* msg.content as the API returns it: absent, or some text
Contents == {None, "some text"}

\* names the model may put in a tool call: a registered one and an unknown one
RequestedNames == {"read_file", "no_such_tool"}

\* tc.function.arguments as the API returns it: absent, an empty object, an
\* unterminated object
ArgTexts == {None, "{}", "{"}

\* what a registered tool's run may do: return a str, return a JSON-serialisable
\* object, raise
ToolOutcomes == {
    [kind |-> "str", val |-> "plain text"],
    [kind |-> "obj", val |-> "{\"status\": \"ok\"}"],
    [kind |-> "raise", repr |-> "RuntimeError('boom')", str |-> "boom"] }

----------------------------------------------------------------------------
(* The tool registry: GeosAgent.__init__ and build_default_tools *)

\* build_default_tools: the names of the tools, in list order
tools == <<"read_file", "write_file", "list_dir", "run_shell",
           "run_python_code", "search_geos_docs", "search_web", "run_geos">>

\* self.tool_map = {t.name: t for t in tools}: keyed by name, a later tool of
\* the same name replacing an earlier one; the tool is identified by its
\* position in the list
tool_map == [n \in {tools[i] : i \in DOMAIN tools} |->
                CHOOSE i \in DOMAIN tools :
                    /\ tools[i] = n
                    /\ \A j \in DOMAIN tools : tools[j] = n => j <= i]

\* a registry miss falls back to a default tool
ToolMapGet_Fallback(name) ==
    IF name \in DOMAIN tool_map THEN tool_map[name] ELSE tool_map["read_file"]

\* self.tool_map.get(name)
ToolMapGet(name) == IF name \in DOMAIN tool_map THEN tool_map[name] ELSE 0

----------------------------------------------------------------------------
(* Pure helpers of GeosAgent *)

system_prompt == "You are GEOS-Agent"

\* Python truthiness of an optional text: None and "" are falsy
Truthy(x) == x # None /\ x # ""

\* `msg.content or ""`
ContentOrEmpty(c) == IF Truthy(c) THEN c ELSE ""

\* `tool_call.function.arguments or "{}"`
ArgsOrEmptyObject(a) == IF Truthy(a) THEN a ELSE "{}"

\* json.loads on the argument texts of the model: the parsed value (kept with
\* its JSON text) or the JSONDecodeError it raises
JsonLoads(s) ==
    CASE s = "{}" -> [ok |-> TRUE, value |-> [type |-> "object", text |-> "{}"]]
      [] s = "{"  -> [ok |-> FALSE,
                      err |-> "Expecting property name enclosed in double quotes: line 1 column 2 (char 1)"]
      [] OTHER    -> [ok |-> FALSE,
                      err |-> "Expecting value: line 1 column 1 (char 0)"]

\* json.dumps(result, ensure_ascii=False) of the three payload dictionaries
\* _run_tool_call builds (none of their texts needs escaping)
JsonDumps(d) ==
    IF "raw" \in DOMAIN d
    THEN "{\"error\": \"" \o d.error \o "\", \"raw\": \"" \o d.raw \o "\"}"
    ELSE "{\"error\": \"" \o d.error \o "\", \"args\": " \o d.args.text \o "}"

\* the parse-error payload without the raw argument text
ParseErrorPayload_NoRaw(args_str, e) ==
    [error |-> "Failed to parse tool arguments: " \o e, raw |-> ""]

\* the payload of a JSONDecodeError (line 90)
ParseErrorPayload(args_str, e) ==
    [error |-> "Failed to parse tool arguments: " \o e, raw |-> args_str]

\* the payload of a registry miss (line 96)
UnknownToolPayload(name, args) ==
    [error |-> "Unknown tool: " \o name, args |-> args]

\* the payload of an exception raised by tool.run (line 114)
ToolExceptionPayload(name, args, e) ==
    [error |-> "Tool " \o name \o " raised an exception: " \o e.repr, args |-> args]

\* _run_tool_call without the handler of lines 113-116: an exception of the
\* tool leaves _run_tool_call
RunToolCallResult_Propagates(tool_call, outcome) ==
    LET name     == tool_call.function.name
        args_str == ArgsOrEmptyObject(tool_call.function.arguments)
        parsed   == JsonLoads(args_str)
    IN  IF ~parsed.ok
        THEN [result |-> JsonDumps(ParseErrorPayload(args_str, parsed.err)),
              ran |-> FALSE, raised |-> FALSE]
        ELSE IF ToolMapGet(name) = 0
        THEN [result |-> JsonDumps(UnknownToolPayload(name, parsed.value)),
              ran |-> FALSE, raised |-> FALSE]
        ELSE IF outcome.kind = "raise"
        THEN [result |-> None, ran |-> TRUE, raised |-> TRUE]
        ELSE [result |-> outcome.val, ran |-> TRUE, raised |-> FALSE]

\* _run_tool_call(tool_call) when the tool, if it is reached, behaves as
\* `outcome`: the returned string, whether tool.run was called, and whether
\* the call raised out of _run_tool_call
RunToolCallResult(tool_call, outcome) ==
    LET name     == tool_call.function.name
        args_str == ArgsOrEmptyObject(tool_call.function.arguments)
        parsed   == JsonLoads(args_str)
    IN  IF ~parsed.ok
        THEN [result |-> JsonDumps(ParseErrorPayload(args_str, parsed.err)),
              ran |-> FALSE, raised |-> FALSE]
        ELSE IF ToolMapGet(name) = 0
        THEN [result |-> JsonDumps(UnknownToolPayload(name, parsed.value)),
              ran |-> FALSE, raised |-> FALSE]
        ELSE IF outcome.kind = "raise"
        THEN [result |-> JsonDumps(ToolExceptionPayload(name, parsed.value, outcome)),
              ran |-> TRUE, raised |-> FALSE]
        ELSE [result |-> outcome.val,
              ran |-> TRUE, raised |-> FALSE]

\* the iteration leaves out the last tool call
MoreToolCalls_SkipLast(i, tool_calls) == i + 1 < Len(tool_calls)

\* the iteration stops after the first tool call
MoreToolCalls_OnlyFirst(i, tool_calls) == FALSE

\* `for tc in msg.tool_calls` (line 175): after the i-th call the iteration
\* has a further call to run
MoreToolCalls(i, tool_calls) == i < Len(tool_calls)

\* the assistant message appended for a reply (lines 140-157)
AssistantMessage(m) ==
    IF Len(m.tool_calls) > 0
    THEN [role |-> "assistant", content |-> ContentOrEmpty(m.content),
          tool_calls |-> [i \in DOMAIN m.tool_calls |->
              [id |-> m.tool_calls[i].id, type |-> "function",
               function |-> [name |-> m.tool_calls[i].function.name,
                             arguments |-> m.tool_calls[i].function.arguments]]]]
    ELSE [role |-> "assistant", content |-> ContentOrEmpty(m.content)]

\* `if not msg.tool_calls` (line 169): the reply is the final answer
IsFinalReply(m) == Len(m.tool_calls) = 0

\* final_text without the `or ""`
FinalText_NoDefault(m) == m.content

\* final_text of a reply without tool calls (line 170)
FinalText(m) == ContentOrEmpty(m.content)

\* the tool message keyed by the function name instead of the call id
ToolMessage_ByName(tc, result_str) ==
    [role |-> "tool", tool_call_id |-> tc.function.name, content |-> result_str]

\* the tool message appended for one tool call (lines 178-184)
ToolMessage(tc, result_str) ==
    [role |-> "tool", tool_call_id |-> tc.id, content |-> result_str]

\* the range without its upper end
InRange_Unbounded(s, max_steps) == 1 <= s

\* the range one step too long
InRange_OffByOne(s, max_steps) == 1 <= s /\ s <= max_steps + 1

\* `for step in range(1, self.config.max_steps + 1)`: the loop body runs for
\* this value of step
InRange(s, max_steps) == 1 <= s /\ s <= max_steps

\* lines 188-192: the content of the last assistant message, "" when there is none
LastAssistantContent(msgs) ==
    LET idx == {i \in DOMAIN msgs : msgs[i].role = "assistant"}
    IN  IF idx = {} THEN ""
        ELSE msgs[CHOOSE i \in idx : \A j \in idx : j <= i].content

\* the system message is appended to what the conversation held
ResetMessages_Appends(old) ==
    old \o <<[role |-> "system", content |-> system_prompt]>>

\* the conversation is only initialised once and kept afterwards
ResetMessages_KeepsHistory(old) ==
    IF old = <<>> THEN <<[role |-> "system", content |-> system_prompt]>> ELSE old

\* lines 128-130: the value assigned to self.messages when a run starts, `old`
\* being the list the attribute held before
ResetMessages(old) == <<[role |-> "system", content |-> system_prompt]>>

\* line 131
UserMessage(u) == [role |-> "user", content |-> u]

\* how the agent was given its log_path: None, the path of a file that can be
\* appended to, the path of a file every write to which fails
LogModes == {"none", "working", "failing"}

\* a record of the log: the event and those of its fields the properties read
\* (step, tool and tools_requested; 0, "" and <<>> where the event has none)
LogRecord(event, s, tool, requested) ==
    [event |-> event, step |-> s, tool |-> tool, tools_requested |-> requested]

\* _log without the handler of lines 61-63: a failing write leaves _log
LogWrite_Propagates(mode, file, record) ==
    IF mode = "none" THEN [file |-> file, raised |-> FALSE, failed |-> FALSE]
    ELSE IF mode = "working"
    THEN [file |-> Append(file, record), raised |-> FALSE, failed |-> FALSE]
    ELSE [file |-> file, raised |-> TRUE, failed |-> TRUE]

\* _log (lines 54-63): what the records of the run are afterwards, whether an
\* exception left _log, whether the write failed
LogWrite(mode, file, record) ==
    IF mode = "none" THEN [file |-> file, raised |-> FALSE, failed |-> FALSE]
    ELSE IF mode = "working"
    THEN [file |-> Append(file, record), raised |-> FALSE, failed |-> FALSE]
    ELSE [file |-> file, raised |-> FALSE, failed |-> TRUE]

\* the event _run_tool_call logs for a tool call (lines 91, 97, 106, 115)
ToolEvent(tool_call, outcome) ==
    LET parsed == JsonLoads(ArgsOrEmptyObject(tool_call.function.arguments))
    IN  IF ~parsed.ok THEN "tool_args_parse_error"
        ELSE IF ToolMapGet(tool_call.function.name) = 0 THEN "tool_unknown"
        ELSE IF outcome.kind = "raise" THEN "tool_run_exception"
        ELSE "tool_run_ok"

\* tools_requested lists only the first requested tool
ToolsRequested_First(m) ==
    [i \in DOMAIN m.tool_calls \cap {1} |-> m.tool_calls[i].function.name]

\* tools_requested of the model_reply record (line 165)
ToolsRequested(m) == [i \in DOMAIN m.tool_calls |-> m.tool_calls[i].function.name]

----------------------------------------------------------------------------
(* The environment: what the hosted model may reply *)

RECURSIVE CallsRequested(_)
\* the number of tool calls requested by a sequence of replies
CallsRequested(rs) ==
    IF rs = <<>> THEN 0 ELSE Len(rs[1].tool_calls) + CallsRequested(Tail(rs))

\* the API gives every tool call an identifier of its own: here the number of
\* the model call within the run and the position within the reply
CallId(n, i) == "call_" \o ToString(n) \o "_" \o ToString(i)

\* the number under which the API answers the k-th model call of the run of
\* thread t: the runs of the two threads draw on ranges of their own
CallSerial(t, k) == (t - 1) * 10 + k

\* the replies the model may give to the n-th model call of a run that has
\* requested `used` tool calls so far
ModelReplies(n, used) ==
    UNION { { [content |-> c,
               tool_calls |-> [i \in 1..k |->
                   [id |-> CallId(n, i),
                    function |-> [name |-> names[i], arguments |-> args[i]]]]] :
              c \in Contents, names \in [1..k -> RequestedNames],
              args \in [1..k -> ArgTexts] } :
            k \in 0..(MaxToolCalls - used) }

----------------------------------------------------------------------------
(* GeosAgent.run, one action per step of the method *)

NoMsg == [content |-> None, tool_calls |-> <<>>]

\* no run is in flight on the agent instance
Quiescent == \A t \in Threads : pc[t] = "idle"

AgentInit ==
    /\ messages = <<>>
    /\ maxSteps \in 0..MaxStepsBound
    /\ pc = [t \in Threads |-> "idle"]
    /\ user = [t \in Threads |-> None]
    /\ step = [t \in Threads |-> 0]
    /\ msg = [t \in Threads |-> NoMsg]
    /\ tcIdx = [t \in Threads |-> 0]
    /\ ret = [t \in Threads |-> None]
    /\ request = [t \in Threads |-> <<>>]
    /\ replies = [t \in Threads |-> <<>>]
    /\ modelCalls = [t \in Threads |-> 0]
    /\ toolLog = [t \in Threads |-> <<>>]
    /\ runs = 0
    /\ lastEnd = "none"
    /\ logMode \in LogModes
    /\ log = [t \in Threads |-> <<>>]
    /\ logFailed = [t \in Threads |-> FALSE]
    /\ overlap = FALSE

\* run(user_input) is entered and resets the conversation (lines 128-130)
Reset(t, u) ==
    /\ pc[t] = "idle"
    /\ runs < MaxRuns
    /\ messages' = ResetMessages(messages)
    /\ user' = [user EXCEPT ![t] = u]
    /\ pc' = [pc EXCEPT ![t] = "append_user"]
    /\ runs' = runs + 1
    /\ overlap' = ~Quiescent
    /\ UNCHANGED <<maxSteps, step, msg, tcIdx, ret, request, replies, modelCalls, toolLog, lastEnd, logMode, log, logFailed>>

\* lines 131-132, and the loop variable takes its first value
AppendUser(t) ==
    /\ pc[t] = "append_user"
    /\ messages' = Append(messages, UserMessage(user[t]))
    /\ LET w == LogWrite(logMode, log[t], LogRecord("user_input", 0, "", <<>>))
       IN  /\ log' = [log EXCEPT ![t] = w.file]
           /\ logFailed' = [logFailed EXCEPT ![t] = @ \/ w.failed]
           /\ IF w.raised
              THEN /\ pc' = [pc EXCEPT ![t] = "raised_log"]
                   /\ step' = step
              ELSE /\ step' = [step EXCEPT ![t] = 1]
                   /\ pc' = [pc EXCEPT ![t] = "loop"]
    /\ UNCHANGED <<maxSteps, user, msg, tcIdx, ret, request, replies, modelCalls, toolLog, runs, lastEnd, logMode, overlap>>

\* lines 134-137: the loop body is entered, logs step_start, and _call_model
\* sends the conversation
IssueModelCall(t) ==
    /\ pc[t] = "loop"
    /\ InRange(step[t], maxSteps)
    /\ LET w == LogWrite(logMode, log[t], LogRecord("step_start", step[t], "", <<>>))
       IN  /\ log' = [log EXCEPT ![t] = w.file]
           /\ logFailed' = [logFailed EXCEPT ![t] = @ \/ w.failed]
           /\ IF w.raised
              THEN /\ pc' = [pc EXCEPT ![t] = "raised_log"]
                   /\ UNCHANGED <<request, modelCalls>>
              ELSE /\ request' = [request EXCEPT ![t] = messages]
                   /\ modelCalls' = [modelCalls EXCEPT ![t] = @ + 1]
                   /\ pc' = [pc EXCEPT ![t] = "awaiting"]
    /\ UNCHANGED <<messages, maxSteps, user, step, msg, tcIdx, ret, replies, toolLog, runs, lastEnd, logMode, overlap>>

\* lines 138-172: the reply arrives, is appended as the assistant message, and
\* either ends the run or starts the tool loop
ModelReplyFrom(t, pool) ==
    /\ pc[t] = "awaiting"
    /\ \E m \in pool :
        /\ msg' = [msg EXCEPT ![t] = m]
        /\ replies' = [replies EXCEPT ![t] = Append(@, m)]
        /\ messages' = Append(messages, AssistantMessage(m))
        /\ LET w1 == LogWrite(logMode, log[t],
                              LogRecord("model_reply", step[t], "", ToolsRequested(m)))
               w2 == LogWrite(logMode, w1.file,
                              LogRecord("run_complete", step[t], "", <<>>))
           IN  IF w1.raised
               THEN /\ pc' = [pc EXCEPT ![t] = "raised_log"]
                    /\ log' = [log EXCEPT ![t] = w1.file]
                    /\ logFailed' = [logFailed EXCEPT ![t] = @ \/ w1.failed]
                    /\ UNCHANGED <<ret, tcIdx>>
               ELSE IF IsFinalReply(m)
               THEN /\ log' = [log EXCEPT ![t] = w2.file]
                    /\ logFailed' = [logFailed EXCEPT ![t] = @ \/ w1.failed \/ w2.failed]
                    /\ tcIdx' = tcIdx
                    /\ IF w2.raised
                       THEN /\ pc' = [pc EXCEPT ![t] = "raised_log"]
                            /\ ret' = ret
                       ELSE /\ ret' = [ret EXCEPT ![t] = FinalText(m)]
                            /\ pc' = [pc EXCEPT ![t] = "returned"]
               ELSE /\ log' = [log EXCEPT ![t] = w1.file]
                    /\ logFailed' = [logFailed EXCEPT ![t] = @ \/ w1.failed]
                    /\ tcIdx' = [tcIdx EXCEPT ![t] = 1]
                    /\ pc' = [pc EXCEPT ![t] = "tools"]
                    /\ ret' = ret
    /\ UNCHANGED <<maxSteps, user, step, request, modelCalls, toolLog, runs, lastEnd, logMode, overlap>>

\* a failed model call is tried again
ModelCallFails_Retries(t) ==
    /\ pc[t] = "awaiting"
    /\ pc' = [pc EXCEPT ![t] = "loop"]
    /\ UNCHANGED <<messages, maxSteps, user, step, msg, tcIdx, ret, request, replies, modelCalls, toolLog, runs, lastEnd, logMode, log, logFailed, overlap>>

\* the reply is any the model may give
ModelReply(t) ==
    ModelReplyFrom(t, ModelReplies(CallSerial(t, Len(replies[t]) + 1),
                                   CallsRequested(replies[t])))

\* _call_model raises (lines 72-80 have no handler, nor has line 137): the
\* exception leaves run
ModelCallFails(t) ==
    /\ pc[t] = "awaiting"
    /\ pc' = [pc EXCEPT ![t] = "raised"]
    /\ UNCHANGED <<messages, maxSteps, user, step, msg, tcIdx, ret, request, replies, modelCalls, toolLog, runs, lastEnd, logMode, log, logFailed, overlap>>

\* lines 175-184: one iteration of `for tc in msg.tool_calls`; after the last
\* one the loop variable advances
RunToolCall(t) ==
    /\ pc[t] = "tools"
    /\ \E outcome \in ToolOutcomes :
       LET tc == msg[t].tool_calls[tcIdx[t]]
           r  == RunToolCallResult(tc, outcome)
           w  == LogWrite(logMode, log[t],
                          LogRecord(ToolEvent(tc, outcome), 0, tc.function.name, <<>>))
       IN  /\ toolLog' = [toolLog EXCEPT ![t] = Append(@,
                   [step |-> step[t], idx |-> tcIdx[t], call |-> tc,
                    outcome |-> IF r.ran THEN outcome.kind ELSE "none", r |-> r])]
           /\ log' = [log EXCEPT ![t] = IF r.raised THEN @ ELSE w.file]
           /\ logFailed' = [logFailed EXCEPT ![t] = @ \/ (~r.raised /\ w.failed)]
           /\ IF r.raised
              THEN /\ pc' = [pc EXCEPT ![t] = "raised"]
                   /\ UNCHANGED <<messages, tcIdx, step>>
              ELSE IF w.raised
              THEN /\ pc' = [pc EXCEPT ![t] = "raised_log"]
                   /\ UNCHANGED <<messages, tcIdx, step>>
              ELSE /\ messages' = Append(messages, ToolMessage(tc, r.result))
                   /\ IF MoreToolCalls(tcIdx[t], msg[t].tool_calls)
                      THEN /\ tcIdx' = [tcIdx EXCEPT ![t] = @ + 1]
                           /\ UNCHANGED <<pc, step>>
                      ELSE /\ step' = [step EXCEPT ![t] = @ + 1]
                           /\ pc' = [pc EXCEPT ![t] = "loop"]
                           /\ tcIdx' = tcIdx
    /\ UNCHANGED <<maxSteps, user, msg, ret, request, replies, modelCalls, runs, lastEnd, logMode, overlap>>

\* lines 186-192: the range is exhausted
StepLimit(t) ==
    /\ pc[t] = "loop"
    /\ ~InRange(step[t], maxSteps)
    /\ LET w == LogWrite(logMode, log[t], LogRecord("max_steps_reached", 0, "", <<>>))
       IN  /\ log' = [log EXCEPT ![t] = w.file]
           /\ logFailed' = [logFailed EXCEPT ![t] = @ \/ w.failed]
           /\ IF w.raised
              THEN /\ pc' = [pc EXCEPT ![t] = "raised_log"]
                   /\ ret' = ret
              ELSE /\ ret' = [ret EXCEPT ![t] = LastAssistantContent(messages)]
                   /\ pc' = [pc EXCEPT ![t] = "limit"]
    /\ UNCHANGED <<messages, maxSteps, user, step, msg, tcIdx, request, replies, modelCalls, toolLog, runs, lastEnd, logMode, overlap>>

\* the caller has the outcome of run (a value or an exception); the frame of
\* the invocation is gone
Finish(t) ==
    /\ pc[t] \in {"returned", "limit", "raised", "raised_log"}
    /\ lastEnd' = pc[t]
    /\ pc' = [pc EXCEPT ![t] = "idle"]
    /\ user' = [user EXCEPT ![t] = None]
    /\ step' = [step EXCEPT ![t] = 0]
    /\ msg' = [msg EXCEPT ![t] = NoMsg]
    /\ tcIdx' = [tcIdx EXCEPT ![t] = 0]
    /\ ret' = [ret EXCEPT ![t] = None]
    /\ request' = [request EXCEPT ![t] = <<>>]
    /\ replies' = [replies EXCEPT ![t] = <<>>]
    /\ modelCalls' = [modelCalls EXCEPT ![t] = 0]
    /\ toolLog' = [toolLog EXCEPT ![t] = <<>>]
    /\ log' = [log EXCEPT ![t] = <<>>]
    /\ logFailed' = [logFailed EXCEPT ![t] = FALSE]
    /\ UNCHANGED <<messages, maxSteps, runs, logMode, overlap>>

----------------------------------------------------------------------------
(* The workspace file tools: src/src/geos_agent/tools/file_tools.py *)

fsVars == <<fs, lastOp>>

\* A text is a sequence of characters, a path the sequence of its component
\* names, each name a text.
Up == <<".", ".">>
W  == <<"w">>
W2 == <<"w", "2">>
Etc == <<"e", "t", "c">>
NameA == <<"a">>
NameB == <<"b">>
NameF == <<"f">>
NameP == <<"p">>

\* self.workspace_root = Path(workspace_root).resolve(): the directory /w
workspace_root == <<W>>

\* every location of the file system of the model: /, /w, /w/a, /w/a/b,
\* the sibling /w2 with /w2/f, and /etc with /etc/p
AllPaths == { <<>>, <<W>>, <<W, NameA>>, <<W, NameA, NameB>>,
              <<W2>>, <<W2, NameF>>, <<Etc>>, <<Etc, NameP>> }

\* the `path` arguments a tool call may carry: relative ("a", "a/b", ".",
\* "a/../a", "../w2/f", "../etc/p") or absolute ("/etc/p")
PathArgs == {
    [abs |-> FALSE, parts |-> <<NameA>>],
    [abs |-> FALSE, parts |-> <<NameA, NameB>>],
    [abs |-> FALSE, parts |-> <<>>],
    [abs |-> FALSE, parts |-> <<NameA, Up, NameA>>],
    [abs |-> FALSE, parts |-> <<Up, W2, NameF>>],
    [abs |-> FALSE, parts |-> <<Up, Etc, NameP>>],
    [abs |-> TRUE,  parts |-> <<Etc, NameP>>] }

\* the `content` arguments of write_file
WriteContents == { <<"x">>, <<"y">> }

\* the default of max_chars
DefaultMaxChars == 4000

\* the max_chars arguments of read_file
MaxCharsArgs == {1, DefaultMaxChars}

Absent == [kind |-> "absent", data |-> <<>>]
Dir == [kind |-> "dir", data |-> <<>>]
File(data) == [kind |-> "file", data |-> data]

RECURSIVE Normalize(_, _)
\* Path.resolve() without symbolic links: ".." drops the last component (and
\* stays at / there), any other name is appended
Normalize(base, parts) ==
    IF parts = <<>> THEN base
    ELSE IF Head(parts) = Up
         THEN Normalize(IF base = <<>> THEN <<>> ELSE SubSeq(base, 1, Len(base) - 1),
                        Tail(parts))
         ELSE Normalize(Append(base, Head(parts)), Tail(parts))

\* (self.workspace_root / path).resolve(): an absolute path replaces the root
ResolvePath(root, arg) ==
    Normalize(IF arg.abs THEN <<>> ELSE root, arg.parts)

RECURSIVE PathStr(_)
\* str(path): "/" and the name for every component ("/" itself for the root)
PathStr(p) ==
    IF p = <<>> THEN <<"/">>
    ELSE IF Len(p) = 1 THEN <<"/">> \o p[1]
    ELSE PathStr(SubSeq(p, 1, Len(p) - 1)) \o <<"/">> \o p[Len(p)]

\* str.startswith
StartsWith(s, prefix) ==
    Len(prefix) <= Len(s) /\ SubSeq(s, 1, Len(prefix)) = prefix

\* `str(abs_path).startswith(str(self.workspace_root))` (lines 41 and 89)
InWorkspace(abs_path) == StartsWith(PathStr(abs_path), PathStr(workspace_root))

\* the proper ancestors of a path, / included
Ancestors(p) == { SubSeq(p, 1, n) : n \in 0..(Len(p) - 1) }

\* abs_path.exists()
Exists(f, p) == f[p].kind # "absent"

\* lines 48-49: the text cut to max_chars, with the truncation mark
Truncate(text, max_chars) ==
    IF Len(text) > max_chars
    THEN SubSeq(text, 1, max_chars) \o <<"\n...[truncated]...">>
    ELSE text

\* the results of the tools: the dictionary returned, or the exception raised
\* (the error texts stand without the path and the exception detail that the
\* code formats into them)
ErrorResult(e) == [status |-> "error", error |-> e, content |-> <<>>, mode |-> ""]
ReadOk(text) == [status |-> "ok", error |-> "", content |-> text, mode |-> ""]
WriteOk(mode) == [status |-> "ok", error |-> "", content |-> <<>>, mode |-> mode]
Raised(e) == [status |-> "raised", error |-> e, content |-> <<>>, mode |-> ""]

\* ReadFileTool.run (lines 39-52): the result and the paths whose content was read
ReadFileRun(f, arg, max_chars) ==
    LET abs_path == ResolvePath(workspace_root, arg)
    IN  IF ~InWorkspace(abs_path)
        THEN [result |-> ErrorResult("Attempted to read outside of workspace."),
              read |-> {}]
        ELSE IF ~Exists(f, abs_path)
        THEN [result |-> ErrorResult("File does not exist"), read |-> {}]
        ELSE IF f[abs_path].kind = "dir"
        THEN [result |-> ErrorResult("Failed to read file: IsADirectoryError"),
              read |-> {}]
        ELSE [result |-> ReadOk(Truncate(f[abs_path].data, max_chars)),
              read |-> {abs_path}]

\* the file is always opened for appending when it exists
WriteMode_AppendIfExists(overwrite, exists) == IF ~exists THEN "w" ELSE "a"

\* line 93: mode = "w" if overwrite or not abs_path.exists() else "a"
WriteMode(overwrite, exists) == IF overwrite \/ ~exists THEN "w" ELSE "a"

\* abs_path.parent.mkdir(parents=True, exist_ok=True) (line 92): the missing
\* ancestors become directories; an ancestor that is a file makes it raise
MkdirParents(f, abs_path) ==
    IF \E q \in Ancestors(abs_path) : f[q].kind = "file"
    THEN [ok |-> FALSE, fs |-> f]
    ELSE [ok |-> TRUE,
          fs |-> [q \in DOMAIN f |->
                    IF q \in Ancestors(abs_path) /\ f[q].kind = "absent"
                    THEN Dir ELSE f[q]]]

\* WriteFileTool.run (lines 87-104): the result and the file system it leaves
WriteFileRun(f, arg, content, overwrite) ==
    LET abs_path == ResolvePath(workspace_root, arg)
    IN  IF ~InWorkspace(abs_path)
        THEN [result |-> ErrorResult("Attempted to write outside of workspace."),
              fs |-> f]
        ELSE LET made == MkdirParents(f, abs_path)
                 mode == WriteMode(overwrite, Exists(f, abs_path))
             IN  IF ~made.ok
                 THEN [result |-> Raised("FileExistsError"), fs |-> f]
                 ELSE IF f[abs_path].kind = "dir"
                 THEN [result |-> ErrorResult("Failed to write file: IsADirectoryError"),
                       fs |-> made.fs]
                 ELSE [result |-> WriteOk(mode),
                       fs |-> [made.fs EXCEPT ![abs_path] =
                                 File(IF mode = "a" THEN f[abs_path].data \o content
                                      ELSE content)]]

NoOp == [tool |-> "none", arg |-> [abs |-> FALSE, parts |-> <<>>], abs_path |-> <<>>,
         content |-> <<>>, overwrite |-> FALSE, max_chars |-> 0,
         before |-> Absent, result |-> ErrorResult(""), read |-> {}]

\* the file systems the tools may find: the workspace /w, a sibling
\* directory /w2 and /etc each with a file, and inside the workspace nothing,
\* a file a, or a directory a
InitialFileSystems ==
    { [p \in AllPaths |->
         CASE p \in {<<>>, <<W>>, <<W2>>, <<Etc>>} -> Dir
           [] p = <<W2, NameF>> -> File(<<"s">>)
           [] p = <<Etc, NameP>> -> File(<<"r">>)
           [] p = <<W, NameA>> -> a
           [] OTHER -> Absent] : a \in {Absent, Dir, File(<<"x">>)} }

\* the file system while only the agent loop is looked at
QuietFileSystem ==
    CHOOSE f \in InitialFileSystems : f[<<W, NameA>>] = Absent

FsInit ==
    /\ fs \in InitialFileSystems
    /\ lastOp = NoOp

\* a call of read_file
ReadFile ==
    \E arg \in PathArgs, max_chars \in MaxCharsArgs :
        LET r == ReadFileRun(fs, arg, max_chars)
        IN  /\ lastOp' = [tool |-> "read_file", arg |-> arg,
                          abs_path |-> ResolvePath(workspace_root, arg),
                          content |-> <<>>, overwrite |-> FALSE,
                          max_chars |-> max_chars,
                          before |-> fs[ResolvePath(workspace_root, arg)],
                          result |-> r.result, read |-> r.read]
            /\ fs' = fs

\* a call of write_file
WriteFile ==
    \E arg \in PathArgs, content \in WriteContents, overwrite \in BOOLEAN :
        LET r == WriteFileRun(fs, arg, content, overwrite)
        IN  /\ \A p \in AllPaths : Len(r.fs[p].data) <= MaxFileLen
            /\ lastOp' = [tool |-> "write_file", arg |-> arg,
                          abs_path |-> ResolvePath(workspace_root, arg),
                          content |-> content, overwrite |-> overwrite,
                          max_chars |-> 0,
                          before |-> fs[ResolvePath(workspace_root, arg)],
                          result |-> r.result, read |-> {}]
            /\ fs' = r.fs

\* the children of a directory that exist, as paths
Children(f, d) == { p \in DOMAIN f : Len(p) = Len(d) + 1 /\ SubSeq(p, 1, Len(d)) = d
                                     /\ f[p].kind # "absent" }

\* the characters of the names of the model, in their order
CharRank(c) ==
    CASE c = "2" -> 1 [] c = "a" -> 2 [] c = "b" -> 3 [] c = "c" -> 4
      [] c = "e" -> 5 [] c = "f" -> 6 [] c = "p" -> 7 [] c = "t" -> 8
      [] c = "w" -> 9 [] OTHER -> 0

RECURSIVE NameLess(_, _)
\* the order of sorted() on paths of one directory: the names compared as texts
NameLess(a, b) ==
    IF a = <<>> THEN b # <<>>
    ELSE IF b = <<>> THEN FALSE
    ELSE IF Head(a) = Head(b) THEN NameLess(Tail(a), Tail(b))
    ELSE CharRank(Head(a)) < CharRank(Head(b))

\* lines 46-54: one entry per child, in the order of their names
DirEntries(f, d) ==
    LET kids == Children(f, d)
        pos(p) == 1 + Cardinality({q \in kids : NameLess(q[Len(q)], p[Len(p)])})
    IN  [i \in 1..Cardinality(kids) |->
            LET p == CHOOSE q \in kids : pos(q) = i
            IN  [name |-> p[Len(p)], is_dir |-> f[p].kind = "dir",
                 size_bytes |-> IF f[p].kind = "file" THEN Len(f[p].data) ELSE -1]]

\* ListDirTool.run (shell_tools.py lines 36-55): the result and the
\* directories whose entries were read
ListDirRun(f, arg) ==
    LET abs_dir == ResolvePath(workspace_root, arg)
    IN  IF ~InWorkspace(abs_dir)
        THEN [result |-> ErrorResult("Attempted to list outside of workspace."),
              read |-> {}]
        ELSE IF ~Exists(f, abs_dir)
        THEN [result |-> ErrorResult("Directory does not exist"), read |-> {}]
        ELSE IF f[abs_dir].kind # "dir"
        THEN [result |-> ErrorResult("Not a directory"), read |-> {}]
        ELSE [result |-> ReadOk(DirEntries(f, abs_dir)), read |-> {abs_dir}]

\* a call of list_dir
ListDir ==
    \E arg \in PathArgs \cup {[abs |-> FALSE, parts |-> <<Up, W2>>]} :
        LET r == ListDirRun(fs, arg)
        IN  /\ lastOp' = [tool |-> "list_dir", arg |-> arg,
                          abs_path |-> ResolvePath(workspace_root, arg),
                          content |-> <<>>, overwrite |-> FALSE,
                          max_chars |-> 0,
                          before |-> fs[ResolvePath(workspace_root, arg)],
                          result |-> r.result, read |-> r.read]
            /\ fs' = fs

----------------------------------------------------------------------------
(* The shell tool: src/src/geos_agent/tools/shell_tools.py, ShellCommandTool *)

shVars == <<lastShell>>

\* the default of timeout_sec
DefaultShellTimeout == 60

\* proc.stdout[-4000:]: how many characters of an output are kept
OutputTail == 4000

\* the `command` arguments: "", " ", "c", "c a", "a  c", "'c a'", "c 'a", "c\"
Commands == {
    <<>>, <<" ">>, <<"c">>, <<"c", " ", "a">>, <<"a", " ", " ", "c">>,
    <<"'", "c", " ", "a", "'">>, <<"c", " ", "'", "a">>, <<"c", "\\">> }

\* the `timeout_sec` arguments
TimeoutArgs == {1, DefaultShellTimeout}

RECURSIVE ShlexScan(_, _, _, _, _)
\* shlex.split(command): the text is cut at white space, a single quote opens
\* a part that runs to the next single quote, a backslash takes the next
\* character as it is; a quote left open or a backslash at the end is a
\* ValueError. `state` is " " between words, "a" in a word, "'" in quotes.
ShlexScan(rest, state, word, inWord, words) ==
    IF rest = <<>>
    THEN IF state = "'" THEN [ok |-> FALSE, err |-> "No closing quotation", args |-> <<>>]
         ELSE [ok |-> TRUE, err |-> "",
               args |-> IF inWord THEN Append(words, word) ELSE words]
    ELSE LET c == Head(rest) IN
         IF state = "'"
         THEN IF c = "'" THEN ShlexScan(Tail(rest), "a", word, TRUE, words)
              ELSE ShlexScan(Tail(rest), "'", Append(word, c), TRUE, words)
         ELSE IF c = " "
         THEN ShlexScan(Tail(rest), " ", <<>>, FALSE,
                        IF inWord THEN Append(words, word) ELSE words)
         ELSE IF c = "'" THEN ShlexScan(Tail(rest), "'", word, TRUE, words)
         ELSE IF c = "\\"
         THEN IF Tail(rest) = <<>>
              THEN [ok |-> FALSE, err |-> "No escaped character", args |-> <<>>]
              ELSE ShlexScan(Tail(Tail(rest)), "a", Append(word, rest[2]), TRUE, words)
         ELSE ShlexScan(Tail(rest), "a", Append(word, c), TRUE, words)

ShlexSplit(command) == ShlexScan(command, " ", <<>>, FALSE, <<>>)

\* text[-n:]
LastChars(text, n) ==
    IF Len(text) <= n THEN text ELSE SubSeq(text, Len(text) - n + 1, Len(text))

\* what the operating system may do with a launch: the program is not there,
\* may not be executed, runs to its end, or is still running at the timeout
\* (TimeoutExpired carries the output captured so far, or None)
ProcessOutcomes ==
    { [kind |-> "FileNotFoundError", returncode |-> 0, stdout |-> <<>>, stderr |-> <<>>],
      [kind |-> "PermissionError", returncode |-> 0, stdout |-> <<>>, stderr |-> <<>>] }
    \cup { [kind |-> "completed", returncode |-> rc, stdout |-> o, stderr |-> e] :
             rc \in {0, 1, 127}, o \in {<<>>, <<"o">>}, e \in {<<>>, <<"e">>} }
    \cup { [kind |-> "TimeoutExpired", returncode |-> 0, stdout |-> o, stderr |-> <<>>] :
             o \in {<<None>>, <<>>, <<"o">>} }

\* the dictionaries run returns, by their keys; `raised` names an exception
\* that left run
ShellResult(keys, rc, err, out, errout) ==
    [keys |-> keys, returncode |-> rc, error |-> err, stdout |-> out,
     stderr |-> errout, raised |-> ""]

ShellRaised(e) ==
    [keys |-> {}, returncode |-> 0, error |-> "", stdout |-> <<>>,
     stderr |-> <<>>, raised |-> e]

\* `e.stdout[-4000:] if e.stdout else ""` (lines 111-112)
PartialOutput(o) == IF o = <<None>> \/ o = <<>> THEN <<>> ELSE LastChars(o, OutputTail)

\* the handler of line 114 takes only FileNotFoundError
CaughtAtLaunch_OnlyNotFound(e) == e = "FileNotFoundError"

\* `except Exception` (line 114): every exception of the launch is taken
CaughtAtLaunch(e) == TRUE

\* ShellCommandTool.run (lines 86-115) when the operating system behaves as
\* `outcome` for the launch
ShellCommandRun(command, timeout_sec, outcome) ==
    LET split == ShlexSplit(command)
    IN  IF ~split.ok
        THEN ShellResult({"error"}, 0, "Failed to parse command: " \o split.err,
                         <<>>, <<>>)
        ELSE LET exc == IF split.args = <<>> THEN "IndexError" ELSE outcome.kind
             IN  IF exc = "completed"
                 THEN ShellResult({"command", "returncode", "stdout", "stderr"},
                                  outcome.returncode, "",
                                  LastChars(outcome.stdout, OutputTail),
                                  LastChars(outcome.stderr, OutputTail))
                 ELSE IF exc = "TimeoutExpired"
                 THEN ShellResult({"command", "error", "stdout", "stderr"}, 0,
                                  "Command timed out after "
                                      \o ToString(timeout_sec) \o " seconds",
                                  PartialOutput(outcome.stdout),
                                  PartialOutput(outcome.stderr))
                 ELSE IF CaughtAtLaunch(exc)
                 THEN ShellResult({"command", "error"}, 0,
                                  "Failed to run command: " \o exc, <<>>, <<>>)
                 ELSE ShellRaised(exc)

NoShell == [command |-> <<>>, timeout_sec |-> 0, args |-> <<>>, parsed |-> FALSE,
            outcome |-> "none", result |-> ShellRaised("")]

ShInit == lastShell = NoShell

\* a call of run_shell
RunShell ==
    \E command \in Commands, timeout_sec \in TimeoutArgs, outcome \in ProcessOutcomes :
        LET split == ShlexSplit(command)
        IN  lastShell' =
                [command |-> command, timeout_sec |-> timeout_sec,
                 args |-> split.args, parsed |-> split.ok,
                 outcome |-> IF ~split.ok THEN "ValueError"
                             ELSE IF split.args = <<>> THEN "IndexError"
                             ELSE outcome.kind,
                 result |-> ShellCommandRun(command, timeout_sec, outcome)]

----------------------------------------------------------------------------
(* The registry for any list of tools: GeosAgent.__init__ and _get_tool_specs *)

regVars == <<toolList, toolMap, dispatch>>

\* the names the tools of a list may carry
ToolNames == {"read_file", "write_file", "list_dir"}

\* the lists of tools a caller may pass, a tool being known by its position
\* and carrying a name
ToolLists == UNION { [1..n -> ToolNames] : n \in 0..MaxTools }

\* {t.name: t for t in tools} (line 49): a name is mapped to the last tool of
\* the list that carries it
BuildToolMap(tool_list) ==
    [n \in {tool_list[i] : i \in DOMAIN tool_list} |->
        CHOOSE i \in DOMAIN tool_list :
            /\ tool_list[i] = n
            /\ \A j \in DOMAIN tool_list : tool_list[j] = n => j <= i]

\* [t.get_spec() for t in self.tools] (line 68): one descriptor per tool of the
\* list, carrying its name
GetToolSpecs(tool_list) == [i \in DOMAIN tool_list |-> [type |-> "function", name |-> tool_list[i]]]

\* self.tool_map.get(name) (line 94): 0 stands for None
Lookup(map, name) == IF name \in DOMAIN map THEN map[name] ELSE 0

NoDispatch == [name |-> None, tool |-> 0]

\* the agent is constructed with the list tool_list (lines 47-49)
RegistryInit(tool_list) ==
    /\ toolList = tool_list
    /\ toolMap = BuildToolMap(tool_list)
    /\ dispatch = NoDispatch

\* lines 84 and 94: a tool call is looked up by its name
DispatchByName ==
    \E name \in ToolNames \cup {"no_such_tool"} :
        /\ dispatch' = [name |-> name, tool |-> Lookup(toolMap, name)]
        /\ UNCHANGED <<toolList, toolMap>>

----------------------------------------------------------------------------
(* scripts/mine_examples.py: parse_example_rst. Text is a sequence of
   characters and a document the sequence of its lines. *)

exVars == <<doc, example>>

\* the tests' documents have at most this many lines
MaxLines == 4

\* SECTION_HEADERS (lines 47-58)
SECTION_HEADERS == {
    <<"C", "o", "n", "t", "e", "x", "t">>,
    <<"O", "b", "j", "e", "c", "t", "i", "v", "e">>,
    <<"O", "b", "j", "e", "c", "t", "i", "v", "e", "s">>,
    <<"I", "n", "p", "u", "t", " ", "f", "i", "l", "e">>,
    <<"I", "n", "p", "u", "t", " ", "f", "i", "l", "e", "s">>,
    <<"R", "u", "n", "n", "i", "n", "g", " ", "G", "E", "O", "S">>,
    <<"R", "u", "n", "n", "i", "n", "g", " ", "T", "r", "i", "a", "x", "i", "a", "l", "D", "r", "i", "v", "e", "r">>,
    <<"R", "u", "n", "n", "i", "n", "g">>,
    <<"I", "n", "s", "p", "e", "c", "t", "i", "n", "g", " ", "r", "e", "s", "u", "l", "t", "s">>,
    <<"R", "e", "s", "u", "l", "t", "s">> }

\* the lines documents are made of: the headers "Running GEOS", "Running" and
\* "Results", the command lines "geosx -i a", "$ geosx -i a" and "python p.py",
\* and the empty line
Lines == {
    <<"R", "u", "n", "n", "i", "n", "g", " ", "G", "E", "O", "S">>,
    <<"R", "u", "n", "n", "i", "n", "g">>,
    <<"R", "e", "s", "u", "l", "t", "s">>,
    <<"g", "e", "o", "s", "x", " ", "-", "i", " ", "a">>,
    <<"$", " ", "g", "e", "o", "s", "x", " ", "-", "i", " ", "a">>,
    <<"p", "y", "t", "h", "o", "n", " ", "p", ".", "p", "y">>,
    <<>> }

Documents == UNION { [1..n -> Lines] : n \in 0..MaxLines }

\* the white space of these documents
Whitespace == {" "}

\* str.lower() of a character: the capitals are those of SECTION_HEADERS and Lines
LowerChar(c) ==
    CASE c = "C" -> "c"
      [] c = "D" -> "d"
      [] c = "E" -> "e"
      [] c = "G" -> "g"
      [] c = "I" -> "i"
      [] c = "O" -> "o"
      [] c = "R" -> "r"
      [] c = "S" -> "s"
      [] c = "T" -> "t"
      [] OTHER -> c

LowerText(text) == [i \in DOMAIN text |-> LowerChar(text[i])]

RECURSIVE LStrip(_, _)
\* text.lstrip(chars)
LStrip(text, chars) ==
    IF text # <<>> /\ Head(text) \in chars THEN LStrip(Tail(text), chars) ELSE text

RECURSIVE RStrip(_, _)
\* text.rstrip(chars)
RStrip(text, chars) ==
    IF text # <<>> /\ text[Len(text)] \in chars
    THEN RStrip(SubSeq(text, 1, Len(text) - 1), chars) ELSE text

\* text.strip()
Strip(text) == LStrip(RStrip(text, Whitespace), Whitespace)

\* text[n:]
From(text, n) == SubSeq(text, n + 1, Len(text))

\* `sub in text`
Contains(text, sub) ==
    \E i \in 0..(Len(text) - Len(sub)) : SubSeq(text, i + 1, i + Len(sub)) = sub

\* `c in cmds` for a list
InList(c, cmds) == \E i \in DOMAIN cmds : cmds[i] = c

\* RUN_CMD_RE.match(line) (lines 80-90): after white space, mpirun or mpiexec
\* followed somewhere by geosx; or, after an optional $ and white space and an
\* optional path prefix, geosx followed somewhere by -i; or python, white
\* space, and .py somewhere after it; letters in either case
RunCmdMatches(line) ==
    LET t == LowerText(LStrip(line, Whitespace))
        Geosx(u) ==
            \E k \in 0..Len(u) :
                /\ k > 0 => u[k] = "/" /\ \A j \in 1..k : u[j] \notin Whitespace
                /\ StartsWith(From(u, k), <<"g", "e", "o", "s", "x">>)
                /\ Contains(From(u, k + 5), <<"-", "i">>)
    IN  \/ StartsWith(t, <<"m", "p", "i", "r", "u", "n">>) /\ Contains(From(t, 6), <<"g", "e", "o", "s", "x">>)
        \/ StartsWith(t, <<"m", "p", "i", "e", "x", "e", "c">>) /\ Contains(From(t, 7), <<"g", "e", "o", "s", "x">>)
        \/ Geosx(t)
        \/ StartsWith(t, <<"$">>) /\ Geosx(LStrip(Tail(t), Whitespace))
        \/ /\ StartsWith(t, <<"p", "y", "t", "h", "o", "n">>)
           /\ Len(t) > 6 /\ t[7] \in Whitespace
           /\ Contains(From(t, 7), <<".", "p", "y">>)

RECURSIVE ExtractRunCommandsFrom(_, _)
\* the loop of _extract_run_commands (lines 162-169) over the lines left
ExtractRunCommandsFrom(lines, cmds) ==
    IF lines = <<>> THEN cmds
    ELSE LET line == Head(lines)
             stripped == Strip(line)
             cmd == IF StartsWith(stripped, <<"$">>)
                    THEN Strip(LStrip(stripped, {"$"}))
                    ELSE stripped
         IN  ExtractRunCommandsFrom(Tail(lines),
                 IF RunCmdMatches(line) /\ cmd # <<>> /\ ~InList(cmd, cmds)
                 THEN Append(cmds, cmd) ELSE cmds)

\* _extract_run_commands(text) (lines 160-170), text given by its lines
ExtractRunCommands(lines) == ExtractRunCommandsFrom(lines, <<>>)

RECURSIVE FindSectionIndicesFrom(_, _, _)
\* the loop of _find_section_indices (lines 110-113) from line i on; the map
\* is the sequence of its items in insertion order, indices counted from 0
FindSectionIndicesFrom(lines, i, indices) ==
    IF i > Len(lines) THEN indices
    ELSE LET stripped == Strip(lines[i])
         IN  FindSectionIndicesFrom(lines, i + 1,
                 IF /\ stripped \in SECTION_HEADERS
                    /\ \A k \in DOMAIN indices : indices[k].name # stripped
                 THEN Append(indices, [name |-> stripped, idx |-> i - 1])
                 ELSE indices)

\* _find_section_indices(lines) (lines 102-114)
FindSectionIndices(lines) == FindSectionIndicesFrom(lines, 1, <<>>)

\* None as an index
NoIndex == -1

\* next_header_after(idx) (lines 201-205): the first header line after idx
NextHeaderAfter(header_map, idx) ==
    LET later == {header_map[k].idx : k \in DOMAIN header_map} \cap (idx + 1)..(idx + MaxLines + 1)
    IN  IF later = {} THEN NoIndex
        ELSE CHOOSE h \in later : \A g \in later : h <= g

RECURSIVE StripLines(_)
\* "\n".join(body).strip().splitlines(): the lines of the body without the
\* white space and the empty lines at its two ends
StripLines(body) ==
    IF body = <<>> THEN <<>>
    ELSE IF Strip(Head(body)) = <<>> THEN StripLines(Tail(body))
    ELSE IF Strip(body[Len(body)]) = <<>> THEN StripLines(SubSeq(body, 1, Len(body) - 1))
    ELSE [i \in DOMAIN body |->
            IF i = 1 /\ i = Len(body) THEN Strip(body[i])
            ELSE IF i = 1 THEN LStrip(body[i], Whitespace)
            ELSE IF i = Len(body) THEN RStrip(body[i], Whitespace)
            ELSE body[i]]

\* _slice_section(lines, start_idx, end_idx) (lines 117-124), as lines
SliceSection(lines, start_idx, end_idx) ==
    LET end == IF end_idx = NoIndex THEN Len(lines) ELSE end_idx
    IN  StripLines(SubSeq(lines, start_idx + 2, end))

\* the record parse_example_rst builds, its two lists of commands
Commands2(run, post) == [run_commands |-> run, postprocess_commands |-> post]

RECURSIVE RunningSection(_, _)
\* lines 257-262: the commands of a "Running..." section
RunningSection(cmds, lists) ==
    IF cmds = <<>> THEN lists
    ELSE LET c == Head(cmds)
         IN  RunningSection(Tail(cmds),
                 IF Contains(c, <<"g", "e", "o", "s", "x">>) /\ ~InList(c, lists.run_commands)
                 THEN Commands2(Append(lists.run_commands, c), lists.postprocess_commands)
                 ELSE IF ~InList(c, lists.postprocess_commands)
                 THEN Commands2(lists.run_commands, Append(lists.postprocess_commands, c))
                 ELSE lists)

RECURSIVE ResultsSection(_, _)
\* lines 263-266: the commands of an "Inspecting results" or "Results" section
ResultsSection(cmds, lists) ==
    IF cmds = <<>> THEN lists
    ELSE LET c == Head(cmds)
         IN  ResultsSection(Tail(cmds),
                 IF Contains(c, <<"p", "y", "t", "h", "o", "n">>) /\ ~InList(c, lists.postprocess_commands)
                 THEN Commands2(lists.run_commands, Append(lists.postprocess_commands, c))
                 ELSE lists)

RECURSIVE SectionCommands(_, _, _, _)
\* lines 250-266: the sections in the order of header_map, from the k-th on
SectionCommands(lines, header_map, k, lists) ==
    IF k > Len(header_map) THEN lists
    ELSE LET lower == LowerText(header_map[k].name)
             idx == header_map[k].idx
             sec_text == SliceSection(lines, idx, NextHeaderAfter(header_map, idx))
             cmds == ExtractRunCommands(sec_text)
         IN  SectionCommands(lines, header_map, k + 1,
                 IF Contains(lower, <<"r", "u", "n", "n", "i", "n", "g">>) THEN RunningSection(cmds, lists)
                 ELSE IF Contains(lower, <<"i", "n", "s", "p", "e", "c", "t">>) \/ Contains(lower, <<"r", "e", "s", "u", "l", "t", "s">>)
                 THEN ResultsSection(cmds, lists)
                 ELSE lists)

RECURSIVE FallbackCommands(_, _)
\* lines 270-275: the commands of the whole file, by `"geosx" in c`
FallbackCommands(cmds, lists) ==
    IF cmds = <<>> THEN lists
    ELSE LET c == Head(cmds)
         IN  FallbackCommands(Tail(cmds),
                 IF Contains(c, <<"g", "e", "o", "s", "x">>)
                 THEN Commands2(Append(lists.run_commands, c), lists.postprocess_commands)
                 ELSE Commands2(lists.run_commands, Append(lists.postprocess_commands, c)))

\* parse_example_rst (lines 176-336), its run_commands and postprocess_commands
\* (lines 246-275); full_text has the lines of the document
ParseCommands(lines) ==
    LET header_map == FindSectionIndices(lines)
        lists == SectionCommands(lines, header_map, 1, Commands2(<<>>, <<>>))
    IN  IF lists.run_commands = <<>> /\ lists.postprocess_commands = <<>>
        THEN FallbackCommands(ExtractRunCommands(lines), lists)
        ELSE lists

\* no document has been parsed
NoExample == [parsed |-> FALSE, run_commands |-> <<>>, postprocess_commands |-> <<>>]

\* no document is at hand
NoDocument == doc = <<>> /\ example = NoExample

\* a document is at hand
ExInit == doc \in Documents /\ example = NoExample

\* parse_example_rst(rst_path, category, repo_root) on the document
ParseExampleRst ==
    /\ ~example.parsed
    /\ example' = [parsed |-> TRUE,
                   run_commands |-> ParseCommands(doc).run_commands,
                   postprocess_commands |-> ParseCommands(doc).postprocess_commands]
    /\ UNCHANGED doc

\* the caller of the sequential usage model: one thread, one run at a time
Caller == 1

\* what the agent loop of the model leaves alone: its tool outcomes are choices
\* of the environment
toolVars == <<fsVars, shVars, regVars, exVars>>

\* the steps of a run that is in flight
RunSteps(t) ==
    \/ AppendUser(t) /\ UNCHANGED toolVars
    \/ IssueModelCall(t) /\ UNCHANGED toolVars
    \/ ModelReply(t) /\ UNCHANGED toolVars
    \/ ModelCallFails(t) /\ UNCHANGED toolVars
    \/ RunToolCall(t) /\ UNCHANGED toolVars
    \/ StepLimit(t) /\ UNCHANGED toolVars
    \/ Finish(t) /\ UNCHANGED toolVars

\* run is only entered when no run is in flight
StartAlone(t, u) == Quiescent /\ Reset(t, u) /\ UNCHANGED toolVars

vars == <<agentVars, fsVars, shVars, regVars, exVars>>

\* the agent loop without a log path, over a file system that nothing touches
Init ==
    /\ AgentInit /\ logMode = "none"
    /\ fs = QuietFileSystem /\ lastOp = NoOp /\ ShInit /\ NoDocument /\ RegistryInit(tools)

\* the instruction of the n-th run after the first: successive runs are given
\* different instructions
Instruction(n) == IF n % 2 = 0 THEN "u1" ELSE "u2"

Next ==
    \/ StartAlone(Caller, Instruction(runs))
    \/ RunSteps(Caller)

Spec == Init /\ [][Next]_vars

\* the agent loop with each way of logging
LogSpecInit ==
    AgentInit /\ fs = QuietFileSystem /\ lastOp = NoOp /\ ShInit /\ NoDocument /\ RegistryInit(tools)

\* the first run of an agent
LogNext ==
    \/ StartAlone(Caller, "u1") /\ runs = 0
    \/ RunSteps(Caller)

LogSpec == LogSpecInit /\ [][LogNext]_vars

\* the file tools called directly, on an agent that runs nothing
FsSpecInit ==
    AgentInit /\ maxSteps = 0 /\ logMode = "none" /\ FsInit /\ ShInit /\ NoDocument /\ RegistryInit(tools)

FsNext ==
    \/ ReadFile /\ UNCHANGED <<agentVars, shVars, regVars, exVars>>
    \/ WriteFile /\ UNCHANGED <<agentVars, shVars, regVars, exVars>>
    \/ ListDir /\ UNCHANGED <<agentVars, shVars, regVars, exVars>>

FsSpec == FsSpecInit /\ [][FsNext]_vars

\* the shell tool called directly, on an agent that runs nothing
ShellSpecInit ==
    /\ AgentInit /\ maxSteps = 0 /\ logMode = "none"
    /\ fs = QuietFileSystem /\ lastOp = NoOp /\ ShInit /\ NoDocument /\ RegistryInit(tools)

ShellNext == RunShell /\ UNCHANGED <<agentVars, fsVars, regVars, exVars>>

ShellSpec == ShellSpecInit /\ [][ShellNext]_vars

\* the first run of an agent, in which every model call and every tool call
\* returns: the thread that executes run takes its next step as long as it
\* has one
LiveNext ==
    \/ StartAlone(Caller, "u1") /\ runs = 0
    \/ AppendUser(Caller) /\ UNCHANGED toolVars
    \/ IssueModelCall(Caller) /\ UNCHANGED toolVars
    \/ ModelReply(Caller) /\ UNCHANGED toolVars
    \/ RunToolCall(Caller) /\ UNCHANGED toolVars
    \/ StepLimit(Caller) /\ UNCHANGED toolVars
    \/ Finish(Caller) /\ UNCHANGED toolVars

LiveSpec ==
    /\ Init
    /\ [][LiveNext]_vars
    /\ WF_vars(AppendUser(Caller) /\ UNCHANGED toolVars)
    /\ WF_vars(IssueModelCall(Caller) /\ UNCHANGED toolVars)
    /\ WF_vars(ModelReply(Caller) /\ UNCHANGED toolVars)
    /\ WF_vars(RunToolCall(Caller) /\ UNCHANGED toolVars)
    /\ WF_vars(StepLimit(Caller) /\ UNCHANGED toolVars)

\* two threads call run on the same agent without waiting for each other;
\* thread 1 gives the instruction "u1" and thread 2 "u2". To keep the
\* interleavings countable the model replies are brief here (no content, at
\* most one call of read_file with empty arguments) and the tool returns text.
BriefReplies(n, used) ==
    { m \in ModelReplies(n, IF used < MaxToolCalls THEN MaxToolCalls - 1 ELSE used) :
        /\ m.content = None
        /\ \A i \in DOMAIN m.tool_calls :
              m.tool_calls[i].function = [name |-> "read_file", arguments |-> "{}"] }

ConcSpecInit ==
    /\ AgentInit /\ logMode = "none" /\ maxSteps <= ConcMaxSteps
    /\ fs = QuietFileSystem /\ lastOp = NoOp /\ ShInit /\ NoDocument /\ RegistryInit(tools)

ConcNext ==
    \E t \in Threads :
        \/ Reset(t, IF t = 1 THEN "u1" ELSE "u2") /\ UNCHANGED toolVars
        \/ AppendUser(t) /\ UNCHANGED toolVars
        \/ IssueModelCall(t) /\ UNCHANGED toolVars
        \/ ModelReplyFrom(t, BriefReplies(CallSerial(t, Len(replies[t]) + 1),
                                          CallsRequested(replies[t])))
               /\ UNCHANGED toolVars
        \/ ModelCallFails(t) /\ UNCHANGED toolVars
        \/ RunToolCall(t) /\ toolLog'[t][Len(toolLog'[t])].outcome = "str"
               /\ UNCHANGED toolVars
        \/ StepLimit(t) /\ UNCHANGED toolVars
        \/ Finish(t) /\ UNCHANGED toolVars

ConcSpec == ConcSpecInit /\ [][ConcNext]_vars

\* agents constructed with any list of tools, and tool calls looked up by name
RegistrySpecInit ==
    /\ AgentInit /\ maxSteps = 0 /\ logMode = "none"
    /\ fs = QuietFileSystem /\ lastOp = NoOp /\ ShInit /\ NoDocument
    /\ \E tool_list \in ToolLists : RegistryInit(tool_list)

RegistryNext == DispatchByName /\ UNCHANGED <<agentVars, fsVars, shVars, exVars>>

RegistrySpec == RegistrySpecInit /\ [][RegistryNext]_vars

\* documents given to parse_example_rst, on an agent that runs nothing
ExampleSpecInit ==
    /\ AgentInit /\ maxSteps = 0 /\ logMode = "none"
    /\ fs = QuietFileSystem /\ lastOp = NoOp /\ lastShell = NoShell
    /\ RegistryInit(tools) /\ ExInit

ExampleNext == ParseExampleRst /\ UNCHANGED <<agentVars, fsVars, shVars, regVars>>

ExampleSpec == ExampleSpecInit /\ [][ExampleNext]_vars


----------------------------------------------------------------------------
(* Vocabulary of the properties of the agent loop *)

\* the positions of the assistant messages of a conversation
AsstPos(msgs) == {i \in DOMAIN msgs : msgs[i].role = "assistant"}

HasToolCalls(m) == "tool_calls" \in DOMAIN m

\* the position of the k-th tool message of a conversation
ToolMsgPos(msgs, k) ==
    CHOOSE i \in DOMAIN msgs :
        /\ msgs[i].role = "tool"
        /\ Cardinality({j \in 1..i : msgs[j].role = "tool"}) = k

\* the tool calls of the current turn that thread t has not run yet
Pending(t) == IF pc[t] = "tools" THEN Len(msg[t].tool_calls) - tcIdx[t] + 1 ELSE 0

\* the first n tool calls of the assistant message at position a are answered
\* by the n messages directly after it, in order, and no tool message follows them
Answered(msgs, a, n) ==
    /\ a + n <= Len(msgs)
    /\ \A i \in 1..n : /\ msgs[a + i].role = "tool"
                       /\ msgs[a + i].tool_call_id = msgs[a].tool_calls[i].id
    /\ a + n + 1 <= Len(msgs) => msgs[a + n + 1].role # "tool"

\* the names under which a tool is registered
RegisteredNames == {tools[i] : i \in DOMAIN tools}

\* the run of thread t has ended
Ended(t) == pc[t] \in {"returned", "limit", "raised"}

\* the run of thread t ends only as the loop prescribes: by a final reply, by
\* the exhausted step budget, or by a failing model call; and every requested
\* tool call that is not still pending has gone through _run_tool_call
LoopKeepsGoing(t) ==
    /\ Len(toolLog[t]) = CallsRequested(replies[t]) - Pending(t)
    /\ pc[t] = "returned" => replies[t][Len(replies[t])].tool_calls = <<>>
    /\ pc[t] = "limit" => modelCalls[t] = maxSteps /\ Len(replies[t]) = maxSteps
    /\ pc[t] = "raised" => modelCalls[t] = Len(replies[t]) + 1

----------------------------------------------------------------------------
(* C1: when the first reply of the model carries no tool calls, the run has
   issued exactly one model call, has gone through no tool call, and has
   returned the content of that reply, the empty string when it has none. *)
C1_FirstReplyFinal ==
    \A t \in Threads :
        (replies[t] # <<>> /\ replies[t][1].tool_calls = <<>>) =>
            /\ pc[t] = "returned"
            /\ modelCalls[t] = 1
            /\ Len(replies[t]) = 1
            /\ toolLog[t] = <<>>
            /\ ret[t] = (IF replies[t][1].content = None THEN ""
                         ELSE replies[t][1].content)

C1_Witness ==
    /\ pc[Caller] = "returned"
    /\ Len(replies[Caller]) = 1
    /\ replies[Caller][1].content = None
    /\ ret[Caller] = ""

(* C2: every assistant message with N tool calls is followed directly by the
   tool messages of its calls, the i-th carrying the id of the i-th call: all
   N of them once its turn is over, the ones already run while it is the
   turn in progress. *)
C2_ToolMessagesInOrder ==
    \A a \in AsstPos(messages) :
        HasToolCalls(messages[a]) =>
            LET N    == Len(messages[a].tool_calls)
                last == \A b \in AsstPos(messages) : b <= a
            IN  Answered(messages, a, IF last THEN N - Pending(Caller) ELSE N)

C2_Witness ==
    /\ pc[Caller] = "loop"
    /\ Len(toolLog[Caller]) = 2
    /\ toolLog[Caller][1].outcome = "raise"
    /\ toolLog[Caller][2].call.function.arguments = "{"
    /\ \E a \in AsstPos(messages) :
          /\ HasToolCalls(messages[a])
          /\ Len(messages[a].tool_calls) = 2
          /\ Answered(messages, a, 2)

(* C3: a run issues at most max_steps model calls; when max_steps replies
   have arrived and each carries tool calls, the run that has ended has ended
   by returning the content of the last assistant message of the
   conversation ("" when there is none), not by raising. *)
C3_StepBudget ==
    \A t \in Threads :
        /\ modelCalls[t] <= maxSteps
        /\ ( /\ Ended(t)
             /\ Len(replies[t]) = maxSteps
             /\ \A i \in DOMAIN replies[t] : replies[t][i].tool_calls # <<>> )
           => /\ pc[t] = "limit"
              /\ IF AsstPos(messages) = {} THEN ret[t] = ""
                 ELSE \E a \in AsstPos(messages) :
                        /\ \A b \in AsstPos(messages) : b <= a
                        /\ ret[t] = messages[a].content

C3_Witness ==
    /\ pc[Caller] = "limit"
    /\ maxSteps = 2
    /\ Len(replies[Caller]) = 2
    /\ replies[Caller][1].content = "some text"
    /\ replies[Caller][2].content = None
    /\ ret[Caller] = ""

\* every tool message answers a call of the nearest assistant message before
\* it, and every tool call of every assistant message has exactly one answer,
\* placed before the next assistant message
PairingInvariant(msgs) ==
    /\ \A i \in DOMAIN msgs :
          msgs[i].role = "tool" =>
              \E a \in AsstPos(msgs) :
                  /\ a < i
                  /\ \A b \in AsstPos(msgs) : b < i => b <= a
                  /\ HasToolCalls(msgs[a])
                  /\ \E k \in DOMAIN msgs[a].tool_calls :
                        msgs[a].tool_calls[k].id = msgs[i].tool_call_id
    /\ \A a \in AsstPos(msgs) :
          HasToolCalls(msgs[a]) =>
              \A k \in DOMAIN msgs[a].tool_calls :
                  Cardinality({i \in DOMAIN msgs :
                      /\ i > a
                      /\ msgs[i].role = "tool"
                      /\ msgs[i].tool_call_id = msgs[a].tool_calls[k].id
                      /\ \A b \in AsstPos(msgs) : b > a => i < b}) = 1

(* C4: the conversation sent with any model call satisfies the pairing
   invariant: no model call is issued while a tool call is unanswered. *)
C4_PairedAtModelCall ==
    \A t \in Threads : PairingInvariant(request[t])

C4_Witness ==
    /\ pc[Caller] = "awaiting"
    /\ \E a \in AsstPos(request[Caller]) :
          /\ HasToolCalls(request[Caller][a])
          /\ Len(request[Caller][a].tool_calls) = 2

(* C5: the conversation sent with the first model call of a run is the
   system message followed by the user message of that run, and the
   conversation sent with any model call holds, after these two, only the
   messages of this run: one per reply and one per tool call run. *)
C5_FreshConversation ==
    \A t \in Threads :
        pc[t] = "awaiting" =>
            /\ Len(request[t]) >= 2
            /\ request[t][1] = [role |-> "system", content |-> system_prompt]
            /\ request[t][2] = [role |-> "user", content |-> user[t]]
            /\ Len(request[t]) = 2 + Len(replies[t]) + Len(toolLog[t])
            /\ modelCalls[t] = 1 => Len(request[t]) = 2

C5_Witness ==
    /\ runs = 2
    /\ lastEnd = "limit"
    /\ pc[Caller] = "awaiting"
    /\ modelCalls[Caller] = 1
    /\ user[Caller] = "u2"
    /\ Len(request[Caller]) = 2

(* C6: a tool call whose tool raised has not raised out of _run_tool_call, has
   produced the error payload that names the tool, has its tool message in
   the conversation, and has not ended the run: the remaining calls of the
   turn go through _run_tool_call and the run ends only as the loop
   prescribes. *)
C6_ToolFailureContained ==
    \A t \in Threads :
        \A k \in DOMAIN toolLog[t] :
            toolLog[t][k].outcome = "raise" =>
                LET e == toolLog[t][k]
                IN  /\ ~e.r.raised
                    /\ e.r.result = "{\"error\": \"Tool " \o e.call.function.name
                                    \o " raised an exception: RuntimeError('boom')\", \"args\": {}}"
                    /\ messages[ToolMsgPos(messages, k)] =
                         [role |-> "tool", tool_call_id |-> e.call.id,
                          content |-> e.r.result]
                    /\ LoopKeepsGoing(t)

C6_Witness ==
    /\ Len(toolLog[Caller]) = 2
    /\ toolLog[Caller][1].outcome = "raise"
    /\ toolLog[Caller][1].step = 1
    /\ toolLog[Caller][2].step = 1
    /\ modelCalls[Caller] = 2

(* C7: a tool call whose argument text does not parse as JSON has produced
   the parse-error payload that holds the raw text, without calling any tool
   and without raising, also when its name is registered. *)
C7_UnparsableArguments ==
    \A t \in Threads :
        \A k \in DOMAIN toolLog[t] :
            LET e   == toolLog[t][k]
                raw == e.call.function.arguments
            IN  raw = "{" =>
                    /\ ~e.r.ran
                    /\ ~e.r.raised
                    /\ e.r.result =
                         "{\"error\": \"Failed to parse tool arguments: "
                         \o "Expecting property name enclosed in double quotes: line 1 column 2 (char 1)"
                         \o "\", \"raw\": \"" \o raw \o "\"}"

C7_Witness ==
    \E k \in DOMAIN toolLog[Caller] :
        /\ toolLog[Caller][k].call.function.arguments = "{"
        /\ toolLog[Caller][k].call.function.name \in RegisteredNames
        /\ ~toolLog[Caller][k].r.ran

(* C8: a tool call whose name is not registered and whose arguments parse has
   produced the unknown-tool payload that names the requested tool, without
   calling any tool, and the loop goes on: the remaining calls of the turn go
   through _run_tool_call and the run ends only as the loop prescribes. *)
C8_UnknownTool ==
    \A t \in Threads :
        \A k \in DOMAIN toolLog[t] :
            LET e == toolLog[t][k]
            IN  ( /\ e.call.function.name \notin RegisteredNames
                  /\ e.call.function.arguments \in {None, "{}"} ) =>
                    /\ ~e.r.ran
                    /\ ~e.r.raised
                    /\ e.r.result = "{\"error\": \"Unknown tool: "
                                    \o e.call.function.name \o "\", \"args\": {}}"
                    /\ Pending(t) = 0 => Len(toolLog[t]) = CallsRequested(replies[t])
                    /\ pc[t] = "raised" => modelCalls[t] = Len(replies[t]) + 1

C8_Witness ==
    /\ Len(toolLog[Caller]) = 2
    /\ toolLog[Caller][1].call.function.name = "no_such_tool"
    /\ toolLog[Caller][1].call.function.arguments = "{}"
    /\ toolLog[Caller][1].step = 1
    /\ toolLog[Caller][2].step = 1
    /\ modelCalls[Caller] = 2

----------------------------------------------------------------------------
(* Properties of the file tools, checked under FsSpec *)

\* the path lies at or under the workspace root
TrulyInside(p) ==
    Len(p) >= Len(workspace_root) /\ SubSeq(p, 1, Len(workspace_root)) = workspace_root

(* C9: a read_file call whose resolved path lies outside the workspace root
   has returned the boundary-violation error and has read no file. *)
C9_ReadOutsideRefused ==
    (lastOp.tool = "read_file" /\ ~TrulyInside(lastOp.abs_path)) =>
        /\ lastOp.result = [status |-> "error",
                            error |-> "Attempted to read outside of workspace.",
                            content |-> <<>>, mode |-> ""]
        /\ lastOp.read = {}

\* what the claim says the file holds after a write_file call
WrittenAsClaimed ==
    IF lastOp.overwrite THEN fs[lastOp.abs_path] = File(lastOp.content)
    ELSE IF lastOp.before.kind = "absent"
         THEN fs[lastOp.abs_path] = File(lastOp.content)
         ELSE fs[lastOp.abs_path] = File(lastOp.before.data \o lastOp.content)

(* C10 as stated: after a write_file call on any path inside the workspace
   the file holds the old content followed by the given one (overwrite false,
   file existing), or exactly the given content (file absent, or overwrite
   true). *)
C10_WriteAnyPathInside ==
    (lastOp.tool = "write_file" /\ TrulyInside(lastOp.abs_path)) => WrittenAsClaimed

(* C10 as amended: the same, for a path that does not name a directory and
   none of whose ancestors is a regular file. *)
C10_WriteFilePath ==
    ( /\ lastOp.tool = "write_file"
      /\ TrulyInside(lastOp.abs_path)
      /\ lastOp.before.kind # "dir"
      /\ \A q \in Ancestors(lastOp.abs_path) : fs[q].kind # "file" )
    => /\ WrittenAsClaimed
       /\ lastOp.result.status = "ok"

C10_Witness ==
    /\ lastOp.tool = "write_file"
    /\ TrulyInside(lastOp.abs_path)
    /\ ~lastOp.overwrite
    /\ lastOp.before = File(<<"x">>)
    /\ lastOp.content = <<"y">>
    /\ fs[lastOp.abs_path] = File(<<"x", "y">>)

(* C11: a call of read_file, write_file or list_dir whose resolved path lies
   outside the workspace root has returned an error result, has read nothing
   and has left the target as it was. *)
C11_OutsideRefused ==
    ( /\ lastOp.tool \in {"read_file", "write_file", "list_dir"}
      /\ ~TrulyInside(lastOp.abs_path) )
    => /\ lastOp.result.status = "error"
       /\ lastOp.read = {}
       /\ fs[lastOp.abs_path] = lastOp.before

----------------------------------------------------------------------------
(* Properties of the shell tool, checked under ShellSpec *)

(* C12: a call of run_shell has not raised; when the command did not
   tokenize, was empty, named a program that is missing or not executable, or
   ran into the timeout, the returned dictionary has an 'error' entry and no
   'returncode'; the dictionary has a 'returncode' exactly when the process
   was launched and ran to its end. *)
C12_ShellNeverRaises ==
    lastShell.outcome # "none" =>
        /\ lastShell.result.raised = ""
        /\ lastShell.outcome # "completed" =>
               /\ "error" \in lastShell.result.keys
               /\ "returncode" \notin lastShell.result.keys
        /\ "returncode" \in lastShell.result.keys <=>
               (lastShell.parsed /\ lastShell.args # <<>> /\ lastShell.outcome = "completed")

C12_Witness ==
    /\ lastShell.outcome = "PermissionError"
    /\ lastShell.args = << <<"c", " ", "a">> >>
    /\ lastShell.result.raised = ""
    /\ "error" \in lastShell.result.keys

----------------------------------------------------------------------------
(* Properties of logging, checked under LogSpec *)

RECURSIVE ExpectedTurns(_, _)
\* the messages a run appends for the replies rs when the tool calls run so
\* far returned the results of tl: for every reply the assistant message and
\* the tool messages of its calls
ExpectedTurns(rs, tl) ==
    IF rs = <<>> THEN <<>>
    ELSE LET m == Head(rs)
             n == IF Len(m.tool_calls) <= Len(tl) THEN Len(m.tool_calls) ELSE Len(tl)
         IN  <<AssistantMessage(m)>>
             \o [i \in 1..n |-> ToolMessage(m.tool_calls[i], tl[i].r.result)]
             \o ExpectedTurns(Tail(rs), SubSeq(tl, n + 1, Len(tl)))

\* the conversation of a run as its inputs alone determine it
ExpectedConversation(u, rs, tl) ==
    <<[role |-> "system", content |-> system_prompt], [role |-> "user", content |-> u]>>
    \o ExpectedTurns(rs, tl)

(* C13: whatever the log path is (none, a working file, a file every write
   to which fails), the conversation, the number of model calls, the tool
   calls run and the value returned are the ones that the user input, the
   model replies and the tool results determine, and no run has ended by an
   exception of _log. *)
C13_LoggingHasNoEffect ==
    \A t \in Threads :
        pc[t] \notin {"idle", "append_user"} =>
            /\ pc[t] # "raised_log"
            /\ messages = ExpectedConversation(user[t], replies[t], toolLog[t])
            /\ modelCalls[t] = Len(replies[t])
                               + (IF pc[t] \in {"awaiting", "raised"} THEN 1 ELSE 0)
            /\ Len(toolLog[t]) = CallsRequested(replies[t]) - Pending(t)
            /\ pc[t] = "returned" =>
                   ret[t] = ContentOrEmpty(replies[t][Len(replies[t])].content)
            /\ pc[t] = "limit" =>
                   ret[t] = (IF replies[t] = <<>> THEN ""
                             ELSE ContentOrEmpty(replies[t][Len(replies[t])].content))

C13_Witness ==
    /\ logMode = "failing"
    /\ logFailed[Caller]
    /\ pc[Caller] = "returned"
    /\ Len(replies[Caller]) = 2
    /\ Len(toolLog[Caller]) = 2
    /\ log[Caller] = <<>>

----------------------------------------------------------------------------
(* Further properties of the agent loop, checked under Spec *)

(* C14: a model call that fails is not tried again, and the run it ends by
   the exception has appended nothing since that call was issued, has run
   every tool call of the earlier turns, has returned no value, leaves a
   conversation in which every tool call is answered, and takes no further
   step of the loop. *)
C14_ModelFailurePropagates ==
    \A t \in Threads :
        /\ modelCalls[t] <= Len(replies[t]) + 1
        /\ pc[t] = "raised" =>
              /\ modelCalls[t] = Len(replies[t]) + 1
              /\ messages = request[t]
              /\ Len(messages) = 2 + Len(replies[t]) + Len(toolLog[t])
              /\ Len(toolLog[t]) = CallsRequested(replies[t])
              /\ PairingInvariant(messages)
              /\ ret[t] = None
              /\ ~ENABLED (AppendUser(t) \/ IssueModelCall(t) \/ ModelReply(t)
                           \/ RunToolCall(t) \/ StepLimit(t))

C14_Witness ==
    /\ pc[Caller] = "raised"
    /\ modelCalls[Caller] = 2
    /\ Len(toolLog[Caller]) = 2
    /\ Len(messages) = 5

----------------------------------------------------------------------------
(* Properties of the registry, checked under RegistrySpec *)

(* C15: for any list of tools, every descriptor sent to the model has a
   registry entry of its own: the name of the i-th descriptor is mapped to
   the i-th tool, and a tool call by a name of the list has been dispatched
   to each tool whose descriptor carries that name. *)
C15_DescriptorsDispatch ==
    /\ \A i \in DOMAIN GetToolSpecs(toolList) :
          Lookup(toolMap, GetToolSpecs(toolList)[i].name) = i
    /\ \A i \in DOMAIN toolList :
          dispatch.name = toolList[i] => dispatch.tool = i

----------------------------------------------------------------------------
(* Properties of overlapping runs, checked under ConcSpec *)

\* the run of thread t has appended its user message and has not ended
Running(t) == pc[t] \in {"loop", "awaiting", "tools"}

\* the conversation is not the one of the run of thread t: messages of the
\* run are gone from it or messages of another run are in it
NotOwnConversation(t) ==
    Running(t) /\ messages # ExpectedConversation(user[t], replies[t], toolLog[t])

\* the model call of thread t in flight was sent a conversation that is not
\* the one of its run
ForeignInModelCall(t) ==
    pc[t] = "awaiting"
    /\ request[t] # ExpectedConversation(user[t], replies[t], toolLog[t])

\* the model call of thread t in flight was sent a tool call without answer
UnansweredInModelCall(t) == pc[t] = "awaiting" /\ ~PairingInvariant(request[t])

(* C16: a conversation that is not the one of the run in flight, a model
   call sent another run's messages, and a model call sent an unanswered tool
   call occur only when a run was entered while another was in flight; runs
   entered one after another never meet them. *)
C16_OnlyOverlappingRunsInterfere ==
    \A t \in Threads :
        (NotOwnConversation(t) \/ ForeignInModelCall(t) \/ UnansweredInModelCall(t))
            => overlap

C16_Witness ==
    /\ overlap
    /\ UnansweredInModelCall(1)
    /\ \E i \in DOMAIN request[1] : request[1][i] = [role |-> "user", content |-> "u2"]
    /\ \A i \in DOMAIN messages : messages[i] # [role |-> "user", content |-> "u1"]
    /\ NotOwnConversation(1)

----------------------------------------------------------------------------
(* Termination, checked under LiveSpec *)

\* the reply carries tool calls
WithToolCalls(m) == m.tool_calls # <<>>

\* the terminal state of the run of thread t is the one its replies call for:
\* DONE with the first reply without tool calls, which is among the first
\* max_steps replies; STEP_LIMIT_EXCEEDED after max_steps replies that all
\* carry tool calls
TerminalStateIsRight(t) ==
    /\ Len(replies[t]) <= maxSteps
    /\ \A i \in 1..(Len(replies[t]) - 1) : WithToolCalls(replies[t][i])
    /\ pc[t] = "returned" <=>
           (replies[t] # <<>> /\ ~WithToolCalls(replies[t][Len(replies[t])]))
    /\ pc[t] = "limit" =>
           /\ Len(replies[t]) = maxSteps
           /\ \A i \in DOMAIN replies[t] : WithToolCalls(replies[t][i])
    /\ ( /\ Len(replies[t]) = maxSteps
         /\ \A i \in DOMAIN replies[t] : WithToolCalls(replies[t][i])
         /\ Pending(t) = 0 /\ pc[t] # "awaiting" /\ pc[t] # "idle" /\ pc[t] # "append_user")
       => pc[t] \in {"loop", "limit"}

(* C17: when every model call and every tool call returns, a run that was
   entered reaches a terminal state, DONE or STEP_LIMIT_EXCEEDED, and the
   terminal state is DONE exactly when one of the first max_steps replies
   carries no tool calls, the run having stopped at the first such reply. *)
C17_RunTerminates ==
    /\ [] TerminalStateIsRight(Caller)
    /\ (pc[Caller] = "append_user") ~> (pc[Caller] \in {"returned", "limit"})

C17_Witness ==
    /\ pc[Caller] = "limit"
    /\ maxSteps = 2
    /\ Len(toolLog[Caller]) = 2
    /\ toolLog[Caller][2].outcome = "raise"

----------------------------------------------------------------------------
(* The last step of a run, checked under Spec *)

\* the last message of the conversation
LastMessage == messages[Len(messages)]

\* the tool calls of the last reply of thread t have all gone through
\* _run_tool_call during the step of that reply, the registered ones with
\* parsable arguments have run their tool, and their tool messages are the
\* last messages of the conversation, in call order
LastReplyCallsRun(t) ==
    LET m == replies[t][Len(replies[t])]
        n == Len(m.tool_calls)
        k == Len(toolLog[t]) - n
    IN  /\ k >= 0
        /\ Len(messages) >= n
        /\ \A i \in 1..n :
              /\ toolLog[t][k + i].call = m.tool_calls[i]
              /\ toolLog[t][k + i].step = Len(replies[t])
              /\ toolLog[t][k + i].r.ran =
                    ( /\ m.tool_calls[i].function.name \in RegisteredNames
                      /\ m.tool_calls[i].function.arguments # "{" )
              /\ messages[Len(messages) - n + i] =
                    [role |-> "tool", tool_call_id |-> m.tool_calls[i].id,
                     content |-> toolLog[t][k + i].r.result]

(* C18 as stated: a run that has ended at the step limit has run every tool
   call of its last reply and leaves a conversation whose last message is a
   tool message; a run that has ended in DONE leaves a conversation whose
   last message is an assistant message without tool calls. *)
C18_LastMessageAnyBudget ==
    \A t \in Threads :
        /\ pc[t] = "limit" =>
              /\ replies[t] # <<>> => LastReplyCallsRun(t)
              /\ LastMessage.role = "tool"
        /\ pc[t] = "returned" =>
              LastMessage.role = "assistant" /\ ~HasToolCalls(LastMessage)

(* C18 as amended: the same, the last message of a run that has ended at the
   step limit being a tool message when max_steps is at least 1 and the user
   message when max_steps is 0. *)
C18_LastStepToolCallsRun ==
    \A t \in Threads :
        /\ (pc[t] = "limit" /\ maxSteps >= 1) =>
              /\ Len(replies[t]) = maxSteps
              /\ replies[t][maxSteps].tool_calls # <<>>
              /\ LastReplyCallsRun(t)
              /\ LastMessage.role = "tool"
        /\ (pc[t] = "limit" /\ maxSteps = 0) =>
              LastMessage = [role |-> "user", content |-> user[t]]
        /\ pc[t] = "returned" =>
              LastMessage.role = "assistant" /\ ~HasToolCalls(LastMessage)

C18_Witness ==
    /\ pc[Caller] = "limit"
    /\ maxSteps = 2
    /\ Len(replies[Caller][2].tool_calls) = 1
    /\ toolLog[Caller][2].step = 2
    /\ toolLog[Caller][2].r.ran
    /\ LastMessage.role = "tool"

----------------------------------------------------------------------------
(* The log of a run, checked under LogSpec *)

\* the events _run_tool_call logs, and the events that end a trace
ToolEvents == {"tool_args_parse_error", "tool_unknown", "tool_run_ok", "tool_run_exception"}
TerminalEvents == {"run_complete", "max_steps_reached"}

\* the positions of the log of thread t that hold an event of the set
EventPos(t, events) == {i \in DOMAIN log[t] : log[t][i].event \in events}

\* thread t is past line 132 of a run whose log writes succeed
Logging(t) == logMode = "working" /\ pc[t] \notin {"idle", "append_user"}

\* user_input is the first event and is logged once
UserInputFirst(t) == EventPos(t, {"user_input"}) = {1}

\* a step_start that is not the last event is followed by the model_reply of
\* its step, and the step_start events carry the steps 1, 2, ... in order
StepStartThenReply(t) ==
    /\ \A i \in EventPos(t, {"step_start"}) :
          /\ log[t][i].step = Cardinality({j \in EventPos(t, {"step_start"}) : j <= i})
          /\ log[t][i - 1].event \in {"user_input"} \cup ToolEvents
          /\ i < Len(log[t]) =>
                /\ log[t][i + 1].event = "model_reply"
                /\ log[t][i + 1].step = log[t][i].step
    /\ \A i \in EventPos(t, {"model_reply"}) : log[t][i - 1].event = "step_start"

\* a model_reply is followed by one tool event per requested tool call, in call
\* order, as far as the log goes, and by no further tool event
ReplyThenToolEvents(t) ==
    /\ \A i \in EventPos(t, {"model_reply"}) :
          LET n == Len(log[t][i].tools_requested)
          IN  /\ \A j \in 1..n : i + j <= Len(log[t]) =>
                    /\ log[t][i + j].event \in ToolEvents
                    /\ log[t][i + j].tool = log[t][i].tools_requested[j]
              /\ i + n + 1 <= Len(log[t]) =>
                    log[t][i + n + 1].event =
                        IF n = 0 THEN "run_complete"
                        ELSE IF log[t][i].step < maxSteps THEN "step_start"
                        ELSE "max_steps_reached"
    /\ \A k \in EventPos(t, ToolEvents) :
          log[t][k - 1].event \in {"model_reply"} \cup ToolEvents

\* the k-th tool event is the one _run_tool_call logs for the k-th tool call
\* of the run
ToolEventsOfCalls(t) ==
    /\ Cardinality(EventPos(t, ToolEvents)) = Len(toolLog[t])
    /\ \A k \in EventPos(t, ToolEvents) :
          LET c == toolLog[t][Cardinality({j \in EventPos(t, ToolEvents) : j <= k})]
          IN  log[t][k].event =
                 IF c.call.function.arguments = "{" THEN "tool_args_parse_error"
                 ELSE IF c.call.function.name \notin RegisteredNames THEN "tool_unknown"
                 ELSE IF c.outcome = "raise" THEN "tool_run_exception"
                 ELSE "tool_run_ok"

\* a terminal event is the last event; a run that has returned has logged
\* exactly one, run_complete after a reply without tool calls and
\* max_steps_reached after the last step
OneTerminalEvent(t) ==
    /\ EventPos(t, TerminalEvents) \subseteq {Len(log[t])}
    /\ pc[t] = "returned" => EventPos(t, {"run_complete"}) = {Len(log[t])}
    /\ pc[t] = "limit" => EventPos(t, {"max_steps_reached"}) = {Len(log[t])}
    /\ pc[t] \notin {"returned", "limit"} => EventPos(t, TerminalEvents) = {}

(* C19 as stated, its second part: in the log of a run that has ended, by a
   return or by an exception, every step_start is followed by the
   model_reply of its step. *)
C19_EveryStepLogsReply ==
    \A t \in Threads :
        (Logging(t) /\ Ended(t)) =>
            \A i \in EventPos(t, {"step_start"}) :
                i < Len(log[t]) /\ log[t][i + 1].event = "model_reply"

(* C19 as amended: with log writes succeeding, user_input is the first event;
   every step_start is followed by the model_reply of its step, except the
   last one of a run whose model call raised, which ends the trace; a
   model_reply is followed by one tool event per requested tool call in call
   order; there are as many step_start events as model calls; a terminal event
   is the last event, and a run that has returned has logged exactly one. *)
C19_LogTraceWellOrdered ==
    \A t \in Threads :
        Logging(t) =>
            /\ UserInputFirst(t)
            /\ StepStartThenReply(t)
            /\ ReplyThenToolEvents(t)
            /\ ToolEventsOfCalls(t)
            /\ Cardinality(EventPos(t, {"step_start"})) = modelCalls[t]
            /\ OneTerminalEvent(t)
            /\ Ended(t) =>
                  /\ Len(replies[t]) = Cardinality(EventPos(t, {"model_reply"}))
                  /\ log[t][Len(log[t])].event = "step_start" <=> pc[t] = "raised"
                  /\ pc[t] # "raised" => log[t][Len(log[t])].event \in TerminalEvents

C19_Witness ==
    /\ logMode = "working"
    /\ pc[Caller] = "limit"
    /\ [i \in DOMAIN log[Caller] |-> log[Caller][i].event] =
          <<"user_input", "step_start", "model_reply", "tool_unknown",
            "step_start", "model_reply", "tool_run_exception", "max_steps_reached">>

----------------------------------------------------------------------------
(* The command lists of parse_example_rst, checked under ExampleSpec *)

\* a list without a repeated entry
DuplicateFree(cmds) == \A i, j \in DOMAIN cmds : cmds[i] = cmds[j] => i = j

\* a command that names geosx, as lines 259 and 272 test it
GeosxInvocation(c) == Contains(c, <<"g", "e", "o", "s", "x">>)

(* C20: in the record parse_example_rst produces, run_commands and
   postprocess_commands are duplicate-free and disjoint, every entry of
   run_commands is a geosx invocation, and no geosx invocation is in
   postprocess_commands, whatever the document. *)
C20_CommandListsDisjoint ==
    example.parsed =>
        /\ DuplicateFree(example.run_commands)
        /\ DuplicateFree(example.postprocess_commands)
        /\ \A i \in DOMAIN example.run_commands :
              /\ GeosxInvocation(example.run_commands[i])
              /\ ~InList(example.run_commands[i], example.postprocess_commands)
        /\ \A i \in DOMAIN example.postprocess_commands :
              ~GeosxInvocation(example.postprocess_commands[i])

====
